---- MODULE Spec2Model ----
(***************************************************************************)
(* Model of the process supervision engine of src/main.py: the runtime     *)
(* record processes[name] of one supervised name, the monitor_script       *)
(* threads started for it, the child processes they launch, the request    *)
(* handlers start_script / stop_script / index and the ws_logs             *)
(* subscribers fed by _broadcast_line.                                     *)
(*                                                                         *)
(* Granularity.  Every `with lock:` block of the source is one atomic      *)
(* step; code between two blocks that touches only thread-local data is    *)
(* folded into the neighbouring step.  The request handlers are `async     *)
(* def` coroutines of one event loop: a handler runs without interleaving  *)
(* with another handler until it awaits or returns (hpc = "idle" is the    *)
(* loop being free), while monitor threads and children run in parallel    *)
(* with it.  stop_script blocks the loop in proc.wait(timeout=5), so it    *)
(* is split into steps that threads and children interleave with.          *)
(*                                                                         *)
(* Text.  A string is a sequence of pieces <<id, lo, hi>>: the characters  *)
(* lo..hi of output line number id.  Lines are numbered in the order in    *)
(* which they are appended to processes[name]["output"].                   *)
(***************************************************************************)
EXTENDS Integers, Sequences, FiniteSets, TLC

\* ------------------------------------------------------------------ bounds
\* Number of start_script requests served (each may spawn one thread).
MaxStarts == 2
\* Number of subprocess.Popen calls that succeed.
MaxProcs == 2
\* Number of output lines read from the children.
MaxLines == 2
\* Number of websocket connections accepted by ws_logs.
MaxConns == 2
\* Capacity of a subscriber queue.  The source creates Queue(maxsize=1000);
\* the model keeps the capacity small so that queue.Full is reached.
maxsize == 1

\* Lengths (in characters) a line read from the child's stdout may have.
LineLens == {1500, 12000}

\* ------------------------------------------------------- program constants
\* (output + line)[-20000:]
OUTPUT_CAP == 20000
\* output[-2000:] sent to a new websocket client
TAIL_CHARS == 2000

Policies == {"never", "on-failure", "always"}

Threads == 1..MaxStarts
Pids    == 1..MaxProcs
Conns   == 1..MaxConns

\* proc.returncode values: natural exits 0 / 1, death by SIGTERM / SIGKILL.
SIGTERM_CODE == 0 - 15
SIGKILL_CODE == 0 - 9
ExitCodes == {0, 1, SIGTERM_CODE, SIGKILL_CODE}
\* stands for None where a return code is expected
NoCode == 99

VARIABLES
    scripts,       \* load_scripts()[name]["policy"]
    known,         \* name in processes
    status,        \* processes[name].get("status"): "none" when the key is missing
    process,       \* processes[name].get("process"): pid, 0 for None
    start_time,    \* processes[name].get("start_time"): 0 for None
    output,        \* processes[name].get("output", "")
    returncode,    \* processes[name].get("returncode"): NoCode for None
    should_stop,   \* processes[name].get("should_stop", False)
    subscribers,   \* processes[name].get("subscribers", set())
    tpc,           \* position of each monitor_script thread
    tpolicy,       \* its `policy` argument
    tproc,         \* its local `proc`
    tcode,         \* its local `code`
    tstop,         \* its local `should_stop`
    tline,         \* the line it is broadcasting
    tsubs,         \* sinks of its snapshot `subs` not yet served
    child,         \* state of each child process: "none", "live", "exited"
    ccode,         \* exit code of each exited child
    hpc,           \* position of the handler that occupies the event loop
    hproc,         \* stop_script's local `proc`
    wpc,           \* state of each websocket connection
    wtail,         \* the tail it was sent on connect
    queue,         \* its Queue q
    nlines,        \* number of lines appended to output so far
    \* history, not read by any action
    delivered,     \* lines ever enqueued to each q, in order
    untruncated,   \* concatenation of the lines appended since the last reset
    startCalls,    \* number of start_script requests served
    terminations   \* number of proc.terminate() calls per child

rec   == <<known, status, process, start_time, output, returncode, should_stop,
           subscribers>>
thr   == <<tpc, tpolicy, tproc, tcode, tstop, tline, tsubs>>
chld  == <<child, ccode>>
hnd   == <<hpc, hproc>>
ws    == <<wpc, wtail, queue>>
hist  == <<delivered, untruncated, startCalls, terminations>>
vars  == <<scripts, rec, thr, chld, hnd, ws, nlines, hist>>

\* ------------------------------------------------------------------- text
RECURSIVE StrLen(_)
StrLen(s) ==
    IF s = <<>> THEN 0
    ELSE (Head(s)[3] - Head(s)[2] + 1) + StrLen(Tail(s))

\* s[k:] for 0 <= k
RECURSIVE DropChars(_, _)
DropChars(s, k) ==
    IF k <= 0 \/ s = <<>> THEN s
    ELSE LET p == Head(s)
             n == p[3] - p[2] + 1
         IN  IF n <= k THEN DropChars(Tail(s), k - n)
             ELSE << <<p[1], p[2] + k, p[3]>> >> \o Tail(s)

\* s[-n:] for n > 0: the slice starts at max(len(s) - n, 0)
LastChars(s, n) == DropChars(s, StrLen(s) - n)

\* a whole line of the given length
Line(id, len) == << <<id, 1, len>> >>

\* ids of the lines a string holds characters of
LineIds(s) == {s[i][1] : i \in 1..Len(s)}

\* ------------------------------------------------------------ construction
\* The module-level state of main.py: processes = {}, no thread, no child,
\* no connection.  The script registry holds the name with some policy.
Init ==
    /\ scripts \in Policies
    /\ known = FALSE
    /\ status = "none"
    /\ process = 0
    /\ start_time = 0
    /\ output = <<>>
    /\ returncode = NoCode
    /\ should_stop = FALSE
    /\ subscribers = {}
    /\ tpc = [t \in Threads |-> "none"]
    /\ tpolicy = [t \in Threads |-> "never"]
    /\ tproc = [t \in Threads |-> 0]
    /\ tcode = [t \in Threads |-> NoCode]
    /\ tstop = [t \in Threads |-> FALSE]
    /\ tline = [t \in Threads |-> 0]
    /\ tsubs = [t \in Threads |-> {}]
    /\ child = [p \in Pids |-> "none"]
    /\ ccode = [p \in Pids |-> NoCode]
    /\ hpc = "idle"
    /\ hproc = 0
    /\ wpc = [c \in Conns |-> "none"]
    /\ wtail = [c \in Conns |-> <<>>]
    /\ queue = [c \in Conns |-> <<>>]
    /\ nlines = 0
    /\ delivered = [c \in Conns |-> <<>>]
    /\ untruncated = <<>>
    /\ startCalls = 0
    /\ terminations = [p \in Pids |-> 0]

\* ---------------------------------------------------------------- helpers
\* the pid the next successful Popen gets
NextPid == Cardinality({p \in Pids : child[p] # "none"}) + 1
\* the connection the next accepted websocket gets
NextConn == Cardinality({c \in Conns : wpc[c] # "none"}) + 1

\* ------------------------------------------------------------------ index
\* processes.setdefault(name, {"status": "stopped", ..., "subscribers": set(),
\* "should_stop": False}): creates the record when the name has none.
Index ==
    /\ hpc = "idle"
    /\ ~known
    /\ known' = TRUE
    /\ status' = "stopped"
    /\ subscribers' = {}
    /\ should_stop' = FALSE
    /\ UNCHANGED <<scripts, process, start_time, output, returncode, thr, chld,
                   hnd, ws, nlines, hist>>

\* ----------------------------------------------------------- start_script
\* the check comparing with a status value that is never stored
AlreadyRunningWrongCase == status = "Running"

\* if processes.get(name, {}).get("status") == "running": return
AlreadyRunning == status = "running"

\* the request with a fresh subscriber set in its update
StartScriptResetsSubscribers ==
    /\ hpc = "idle"
    /\ startCalls < MaxStarts
    /\ startCalls' = startCalls + 1
    /\ IF AlreadyRunning
       THEN UNCHANGED <<scripts, rec, thr, chld, hnd, ws, nlines, delivered,
                        untruncated, terminations>>
       ELSE /\ known' = TRUE
            /\ should_stop' = FALSE
            /\ output' = <<>>
            /\ untruncated' = <<>>
            /\ subscribers' = {}
            /\ tpc' = [tpc EXCEPT ![startCalls + 1] = "check"]
            /\ tpolicy' = [tpolicy EXCEPT ![startCalls + 1] = scripts]
            /\ UNCHANGED <<scripts, status, process, start_time, returncode,
                           tproc, tcode, tstop, tline, tsubs,
                           chld, hnd, ws, nlines, delivered, terminations>>

\* One request.  The two lock blocks, the Thread construction and t.start()
\* are one step: the second block only stores the Thread object, which
\* nothing reads, and a started thread may take its first step at any later
\* time.  The thread spawned by the k-th request is thread k.
StartScript ==
    /\ hpc = "idle"
    /\ startCalls < MaxStarts
    /\ startCalls' = startCalls + 1
    /\ IF AlreadyRunning
       THEN UNCHANGED <<scripts, rec, thr, chld, hnd, ws, nlines, delivered,
                        untruncated, terminations>>
       ELSE /\ known' = TRUE
            /\ should_stop' = FALSE
            /\ output' = <<>>
            /\ untruncated' = <<>>
            /\ tpc' = [tpc EXCEPT ![startCalls + 1] = "check"]
            /\ tpolicy' = [tpolicy EXCEPT ![startCalls + 1] = scripts]
            /\ UNCHANGED <<scripts, status, process, start_time, returncode,
                           subscribers, tproc, tcode, tstop, tline, tsubs,
                           chld, hnd, ws, nlines, delivered, terminations>>

\* ------------------------------------------------------------ stop_script
\* with lock: processes[name]["should_stop"] = True; proc = ....get("process")
StopBegin ==
    /\ hpc = "idle"
    /\ known
    /\ should_stop' = TRUE
    /\ hproc' = process
    /\ hpc' = "stop_poll"
    /\ UNCHANGED <<scripts, known, status, process, start_time, output,
                   returncode, subscribers, thr, chld, ws, nlines, hist>>

\* the check without the poll
MustTerminateNoPoll(p) == p # 0

\* if proc and proc.poll() is None
MustTerminate(p) == p # 0 /\ child[p] = "live"

\* proc.terminate() when the child is live, else straight to the last block
StopPoll ==
    /\ hpc = "stop_poll"
    /\ IF MustTerminate(hproc)
       THEN /\ terminations' = [terminations EXCEPT ![hproc] = @ + 1]
            /\ hpc' = "stop_wait"
       ELSE /\ hpc' = "stop_final"
            /\ UNCHANGED terminations
    /\ UNCHANGED <<scripts, rec, thr, chld, hproc, ws, nlines, delivered,
                   untruncated, startCalls>>

\* proc.wait(timeout=5) returns: the child has exited
StopWaitReturn ==
    /\ hpc = "stop_wait"
    /\ child[hproc] = "exited"
    /\ hpc' = "stop_final"
    /\ UNCHANGED <<scripts, rec, thr, chld, hproc, ws, nlines, hist>>

\* proc.wait(timeout=5) raises TimeoutExpired: proc.kill()
StopWaitTimeout ==
    /\ hpc = "stop_wait"
    /\ child[hproc] = "live"
    /\ child' = [child EXCEPT ![hproc] = "exited"]
    /\ ccode' = [ccode EXCEPT ![hproc] = SIGKILL_CODE]
    /\ hpc' = "stop_final"
    /\ UNCHANGED <<scripts, rec, thr, hproc, ws, nlines, hist>>

\* the last block also dropping the process handle
StopFinalClearsProcess ==
    /\ hpc = "stop_final"
    /\ status' = "stopped"
    /\ process' = 0
    /\ hpc' = "idle"
    /\ hproc' = 0
    /\ UNCHANGED <<scripts, known, start_time, output, returncode,
                   should_stop, subscribers, thr, chld, ws, nlines, hist>>

\* with lock: processes[name]["status"] = "stopped"; return
StopFinal ==
    /\ hpc = "stop_final"
    /\ status' = "stopped"
    /\ hpc' = "idle"
    /\ hproc' = 0
    /\ UNCHANGED <<scripts, known, process, start_time, output, returncode,
                   should_stop, subscribers, thr, chld, ws, nlines, hist>>

\* ---------------------------------------------------------- child process
\* A live child exits by itself with code 0 or 1, or dies of the SIGTERM it
\* was sent.
ChildExit(p, c) ==
    /\ child[p] = "live"
    /\ c \in {0, 1} \/ (c = SIGTERM_CODE /\ terminations[p] > 0)
    /\ child' = [child EXCEPT ![p] = "exited"]
    /\ ccode' = [ccode EXCEPT ![p] = c]
    /\ UNCHANGED <<scripts, rec, thr, hnd, ws, nlines, hist>>

\* --------------------------------------------------------- monitor_script
\* with lock: should_stop = processes[name].get("should_stop", False)
\* (top of the while loop), and the branch on it
MonitorCheck(t) ==
    /\ tpc[t] = "check"
    /\ tstop' = [tstop EXCEPT ![t] = should_stop]
    /\ tpc' = [tpc EXCEPT ![t] = IF should_stop THEN "setstopped" ELSE "launch"]
    /\ UNCHANGED <<scripts, rec, tpolicy, tproc, tcode, tline, tsubs, chld,
                   hnd, ws, nlines, hist>>

\* with lock: processes[name]["status"] = "stopped"; break
MonitorSetStopped(t) ==
    /\ tpc[t] = "setstopped"
    /\ status' = "stopped"
    /\ tpc' = [tpc EXCEPT ![t] = "done"]
    /\ UNCHANGED <<scripts, known, process, start_time, output, returncode,
                   should_stop, subscribers, tpolicy, tproc, tcode, tstop,
                   tline, tsubs, chld, hnd, ws, nlines, hist>>

\* start_time = time.time(); proc = subprocess.Popen(...) succeeds
MonitorLaunch(t) ==
    /\ tpc[t] = "launch"
    /\ NextPid <= MaxProcs
    /\ child' = [child EXCEPT ![NextPid] = "live"]
    /\ tproc' = [tproc EXCEPT ![t] = NextPid]
    /\ tpc' = [tpc EXCEPT ![t] = "register"]
    /\ UNCHANGED <<scripts, rec, tpolicy, tcode, tstop, tline, tsubs, ccode,
                   hnd, ws, nlines, hist>>

\* subprocess.Popen(...) raises (OSError): nothing in monitor_script catches
\* it, the thread ends with the exception
MonitorLaunchFail(t) ==
    /\ tpc[t] = "launch"
    /\ tpc' = [tpc EXCEPT ![t] = "crashed"]
    /\ UNCHANGED <<scripts, rec, tpolicy, tproc, tcode, tstop, tline, tsubs,
                   chld, hnd, ws, nlines, hist>>

\* the block starting the output afresh at every launch
MonitorRegisterResetsOutput(t) ==
    /\ tpc[t] = "register"
    /\ process' = tproc[t]
    /\ status' = "running"
    /\ start_time' = tproc[t]
    /\ output' = <<>>
    /\ tpc' = [tpc EXCEPT ![t] = "read"]
    /\ UNCHANGED <<scripts, known, returncode, should_stop,
                   subscribers, tpolicy, tproc, tcode, tstop, tline, tsubs,
                   chld, hnd, ws, nlines, hist>>

\* the block recording the handle and the status without the start time
MonitorRegisterNoTime(t) ==
    /\ tpc[t] = "register"
    /\ process' = tproc[t]
    /\ status' = "running"
    /\ tpc' = [tpc EXCEPT ![t] = "read"]
    /\ UNCHANGED <<scripts, known, start_time, output, returncode,
                   should_stop, subscribers, tpolicy, tproc, tcode, tstop,
                   tline, tsubs, chld, hnd, ws, nlines, hist>>

\* with lock: process = proc; status = "running"; start_time = start_time;
\* setdefault("output", "").  The time of a launch is its ordinal.
MonitorRegister(t) ==
    /\ tpc[t] = "register"
    /\ process' = tproc[t]
    /\ status' = "running"
    /\ start_time' = tproc[t]
    /\ tpc' = [tpc EXCEPT ![t] = "read"]
    /\ UNCHANGED <<scripts, known, output, returncode, should_stop,
                   subscribers, tpolicy, tproc, tcode, tstop, tline, tsubs,
                   chld, hnd, ws, nlines, hist>>

\* the slice applied to the new line alone: output + line[-20000:]
AppendOutputSliceLine(out, line) == out \o LastChars(line, OUTPUT_CAP)

\* (processes[name]["output"] + line)[-20000:]
AppendOutput(out, line) == LastChars(out \o line, OUTPUT_CAP)

\* for line in proc.stdout: with lock: output = (output + line)[-20000:]
\* The pipe may still hold lines after the child has exited.
MonitorReadLine(t, len) ==
    /\ tpc[t] = "read"
    /\ nlines < MaxLines
    /\ nlines' = nlines + 1
    /\ output' = AppendOutput(output, Line(nlines + 1, len))
    /\ untruncated' = untruncated \o Line(nlines + 1, len)
    /\ tline' = [tline EXCEPT ![t] = nlines + 1]
    /\ tpc' = [tpc EXCEPT ![t] = "broadcast"]
    /\ UNCHANGED <<scripts, known, status, process, start_time, returncode,
                   should_stop, subscribers, tpolicy, tproc, tcode, tstop,
                   tsubs, chld, hnd, ws, delivered, startCalls, terminations>>

\* _broadcast_line: with lock: subs = ....get("subscribers", set()).copy()
MonitorSnapshot(t) ==
    /\ tpc[t] = "broadcast"
    /\ tsubs' = [tsubs EXCEPT ![t] = subscribers]
    /\ tpc' = [tpc EXCEPT ![t] = IF subscribers = {} THEN "read" ELSE "put"]
    /\ tline' = [tline EXCEPT ![t] = IF subscribers = {} THEN 0 ELSE @]
    /\ UNCHANGED <<scripts, rec, tpolicy, tproc, tcode, tstop, chld, hnd, ws,
                   nlines, hist>>

\* q.put(line): waits for room
PutBlocking(c, line) ==
    /\ Len(queue[c]) < maxsize
    /\ queue' = [queue EXCEPT ![c] = Append(@, line)]

\* try: q.put_nowait(line) except queue.Full: pass
PutNowait(c, line) ==
    queue' = [queue EXCEPT ![c] = IF Len(@) < maxsize THEN Append(@, line) ELSE @]

\* one iteration of `for q in subs` (a set: any order)
MonitorPut(t, c) ==
    /\ tpc[t] = "put"
    /\ c \in tsubs[t]
    /\ PutNowait(c, tline[t])
    /\ delivered' = [delivered EXCEPT ![c] =
                        IF queue'[c] # queue[c] THEN Append(@, tline[t]) ELSE @]
    /\ tsubs' = [tsubs EXCEPT ![t] = @ \ {c}]
    /\ tpc' = [tpc EXCEPT ![t] = IF tsubs[t] = {c} THEN "read" ELSE "put"]
    /\ tline' = [tline EXCEPT ![t] = IF tsubs[t] = {c} THEN 0 ELSE @]
    /\ UNCHANGED <<scripts, rec, tpolicy, tproc, tcode, tstop, chld, hnd, wpc,
                   wtail, nlines, untruncated, startCalls, terminations>>

\* end of proc.stdout; proc.wait(); code = proc.returncode;
\* with lock: processes[name]["returncode"] = code
\* with lock: should_stop = processes[name].get("should_stop", False)
\* The two lock blocks are one step: nothing else reads or writes returncode
\* between them, and the step may be taken at any time after the exit.
MonitorWait(t) ==
    /\ tpc[t] = "read"
    /\ child[tproc[t]] = "exited"
    /\ tcode' = [tcode EXCEPT ![t] = ccode[tproc[t]]]
    /\ returncode' = ccode[tproc[t]]
    /\ tstop' = [tstop EXCEPT ![t] = should_stop]
    /\ tpc' = [tpc EXCEPT ![t] = "decide"]
    /\ UNCHANGED <<scripts, known, status, process, start_time, output,
                   should_stop, subscribers, tpolicy, tproc, tline, tsubs,
                   chld, hnd, ws, nlines, hist>>

\* the policy test of the failure branch used for every exit
AfterExitRestartAnyExit(stop, code, policy) ==
    IF stop THEN <<"stopped", "done">>
    ELSE IF policy \in {"on-failure", "always"}
         THEN <<IF code # 0 THEN "error" ELSE "stopped", "check">>
         ELSE <<IF code # 0 THEN "error" ELSE "stopped", "done">>

\* the clean-exit branch breaking out without the test for "always"
AfterExitNoCleanRestart(stop, code, policy) ==
    IF stop THEN <<"stopped", "done">>
    ELSE IF code # 0
         THEN IF policy \in {"on-failure", "always"}
              THEN <<"error", "check">>
              ELSE <<"error", "done">>
         ELSE <<"stopped", "done">>

\* the failure branch restarting only for "always"
AfterExitNoFailureRestart(stop, code, policy) ==
    IF stop THEN <<"stopped", "done">>
    ELSE IF code # 0
         THEN IF policy = "always"
              THEN <<"error", "check">>
              ELSE <<"error", "done">>
         ELSE IF policy = "always"
              THEN <<"stopped", "check">>
              ELSE <<"stopped", "done">>

\* a nonzero exit relaunched whatever the policy
AfterExitRestartsNever(stop, code, policy) ==
    IF stop THEN <<"stopped", "done">>
    ELSE IF code # 0
         THEN <<"error", "check">>
         ELSE IF policy = "always"
              THEN <<"stopped", "check">>
              ELSE <<"stopped", "done">>

\* the flag read after the exit not consulted before the policy
AfterExitIgnoresStop(stop, code, policy) ==
    IF code # 0
    THEN IF policy \in {"on-failure", "always"}
         THEN <<"error", "check">>
         ELSE <<"error", "done">>
    ELSE IF policy = "always"
         THEN <<"stopped", "check">>
         ELSE <<"stopped", "done">>

\* The tail of the loop body: the status written and where the thread goes,
\* from the flag read, the exit code and the policy.  "check" is
\* time.sleep(2); continue: the pause changes no state, a thread that has
\* not yet taken its next MonitorCheck step is in it.
AfterExit(stop, code, policy) ==
    IF stop THEN <<"stopped", "done">>
    ELSE IF code # 0
         THEN IF policy \in {"on-failure", "always"}
              THEN <<"error", "check">>
              ELSE <<"error", "done">>
         ELSE IF policy = "always"
              THEN <<"stopped", "check">>
              ELSE <<"stopped", "done">>

\* with lock: status = "stopped" | "error"; then break, or time.sleep(2)
\* and continue
MonitorDecide(t) ==
    /\ tpc[t] = "decide"
    /\ status' = AfterExit(tstop[t], tcode[t], tpolicy[t])[1]
    /\ tpc' = [tpc EXCEPT ![t] = AfterExit(tstop[t], tcode[t], tpolicy[t])[2]]
    /\ UNCHANGED <<scripts, known, process, start_time, output, returncode,
                   should_stop, subscribers, tpolicy, tproc, tcode, tstop,
                   tline, tsubs, chld, hnd, ws, nlines, hist>>

\* ---------------------------------------------------------------- ws_logs
\* output[-2000:]
RecentTail(out) == LastChars(out, TAIL_CHARS)

\* accept; q = Queue(maxsize); with lock: subscribers.add(q);
\* tail = output[-2000:]; then the tail is sent
WsSubscribe ==
    /\ hpc = "idle"
    /\ NextConn <= MaxConns
    /\ known' = TRUE
    /\ subscribers' = subscribers \cup {NextConn}
    /\ wtail' = [wtail EXCEPT ![NextConn] = RecentTail(output)]
    /\ wpc' = [wpc EXCEPT ![NextConn] = "open"]
    /\ UNCHANGED <<scripts, status, process, start_time, output, returncode,
                   should_stop, thr, chld, hnd, queue, nlines, hist>>

\* line = q.get(); send_text(line)
WsGet(c) ==
    /\ wpc[c] = "open"
    /\ queue[c] # <<>>
    /\ queue' = [queue EXCEPT ![c] = Tail(@)]
    /\ UNCHANGED <<scripts, rec, thr, chld, hnd, wpc, wtail, nlines, hist>>

\* WebSocketDisconnect; finally: with lock: subs.remove(q).  The handler
\* returns: its q and tail are dropped with it.
WsDisconnect(c) ==
    /\ hpc = "idle"
    /\ wpc[c] = "open"
    /\ wpc' = [wpc EXCEPT ![c] = "closed"]
    /\ subscribers' = subscribers \ {c}
    /\ wtail' = [wtail EXCEPT ![c] = <<>>]
    /\ queue' = [queue EXCEPT ![c] = <<>>]
    /\ delivered' = [delivered EXCEPT ![c] = <<>>]
    /\ UNCHANGED <<scripts, known, status, process, start_time, output,
                   returncode, should_stop, thr, chld, hnd, nlines,
                   untruncated, startCalls, terminations>>

\* ------------------------------------------------------------------ system
\* The supervision engine with no websocket client: requests, threads and
\* children.  The ws_logs steps write only known, subscribers and the
\* connection's own state, so leaving them out removes no behaviour of the
\* other variables (Index and StartScript create the record as well).
Next ==
    \/ Index
    \/ StartScript
    \/ StopBegin
    \/ StopPoll
    \/ StopWaitReturn
    \/ StopWaitTimeout
    \/ StopFinal
    \/ \E p \in Pids, c \in {0, 1, SIGTERM_CODE} : ChildExit(p, c)
    \/ \E t \in Threads : MonitorCheck(t)
    \/ \E t \in Threads : MonitorSetStopped(t)
    \/ \E t \in Threads : MonitorLaunch(t)
    \/ \E t \in Threads : MonitorLaunchFail(t)
    \/ \E t \in Threads : MonitorRegister(t)
    \/ \E t \in Threads, len \in LineLens : MonitorReadLine(t, len)
    \/ \E t \in Threads : MonitorSnapshot(t)
    \/ \E t \in Threads : MonitorWait(t)
    \/ \E t \in Threads : MonitorDecide(t)

Spec == Init /\ [][Next]_vars

\* One supervised run with websocket clients: the name is started once, may
\* be stopped at any time, and clients connect, read and disconnect.
NextClients ==
    \/ Index
    \/ (startCalls = 0 /\ StartScript)
    \/ StopBegin
    \/ StopPoll
    \/ StopWaitReturn
    \/ StopWaitTimeout
    \/ StopFinal
    \/ \E p \in Pids, c \in {0, 1, SIGTERM_CODE} : ChildExit(p, c)
    \/ \E t \in Threads : MonitorCheck(t)
    \/ \E t \in Threads : MonitorSetStopped(t)
    \/ \E t \in Threads : MonitorLaunch(t)
    \/ \E t \in Threads : MonitorLaunchFail(t)
    \/ \E t \in Threads : MonitorRegister(t)
    \/ \E t \in Threads, len \in LineLens : MonitorReadLine(t, len)
    \/ \E t \in Threads : MonitorSnapshot(t)
    \/ \E t \in Threads, c \in Conns : MonitorPut(t, c)
    \/ \E t \in Threads : MonitorWait(t)
    \/ \E t \in Threads : MonitorDecide(t)
    \/ WsSubscribe
    \/ \E c \in Conns : WsGet(c)
    \/ \E c \in Conns : WsDisconnect(c)

SpecClients == Init /\ [][NextClients]_vars

\* Repeated start requests with one websocket client: no stop request is
\* made and every Popen succeeds.
NextRestart ==
    \/ StartScript
    \/ \E p \in Pids, c \in {0, 1} : ChildExit(p, c)
    \/ \E t \in Threads : MonitorCheck(t)
    \/ \E t \in Threads : MonitorLaunch(t)
    \/ \E t \in Threads : MonitorRegister(t)
    \/ \E t \in Threads, len \in LineLens : MonitorReadLine(t, len)
    \/ \E t \in Threads : MonitorSnapshot(t)
    \/ \E t \in Threads, c \in Conns : MonitorPut(t, c)
    \/ \E t \in Threads : MonitorWait(t)
    \/ \E t \in Threads : MonitorDecide(t)
    \/ (NextConn = 1 /\ WsSubscribe)
    \/ \E c \in Conns : WsGet(c)
    \/ \E c \in Conns : WsDisconnect(c)

SpecRestart == Init /\ [][NextRestart]_vars

\* ================================================================ claims
LiveChildren == {p \in Pids : child[p] = "live"}

\* C1: at most one child process of the name is live at any time.
AtMostOneLiveChild == Cardinality(LiveChildren) <= 1

\* C2: a start request served while the status is "running" spawns no
\* thread and no child and leaves should_stop, the output tail, the
\* subscriber set and the status as they were.
StartWhileRunningIsNoop ==
    [][(startCalls' = startCalls + 1 /\ status = "running") =>
          /\ tpc' = tpc
          /\ child' = child
          /\ should_stop' = should_stop
          /\ output' = output
          /\ subscribers' = subscribers
          /\ status' = status]_vars

\* the second request was served while running: it spawned no thread, with
\* output in the tail and a client subscribed
StartWhileRunningSeen ==
    /\ startCalls = 2
    /\ tpc[2] = "none"
    /\ status = "running"
    /\ output # <<>>
    /\ subscribers # {}

\* C3: every stop request on a known name returns with the stop flag set
\* and status "stopped"; no child is sent a second terminate(), so a stop
\* repeated after the child has exited makes no termination attempt.
StopLeavesStopped ==
    /\ [][(hpc = "stop_final" /\ hpc' = "idle") =>
             (status' = "stopped" /\ should_stop')]_vars
    /\ [][\A p \in Pids : terminations'[p] > terminations[p] =>
             (child[p] = "live" /\ terminations[p] = 0)]_vars

\* a later stop request holds the child an earlier one terminated
SecondStopSeen ==
    /\ hpc = "stop_poll"
    /\ hproc # 0
    /\ terminations[hproc] = 1
    /\ child[hproc] = "exited"
    /\ status = "stopped"

Terminated(t) == tpc[t] \in {"none", "done", "crashed"}

\* C4: a thread whose child exited with code 0 under policy never or
\* on-failure writes status "stopped" and ends; an ended thread stays ended;
\* and once every thread has ended with status "stopped", without a new
\* start the status stays "stopped" and no child is created.
CleanExitEndsLoop ==
    /\ [][\A t \in Threads :
            (/\ tpc[t] = "decide" /\ tpc'[t] # "decide"
             /\ tcode[t] = 0 /\ tpolicy[t] \in {"never", "on-failure"})
            => (tpc'[t] = "done" /\ status' = "stopped")]_vars
    /\ [][\A t \in Threads : tpc[t] = "done" => tpc'[t] = "done"]_vars
    /\ [][((\A t \in Threads : Terminated(t)) /\ status = "stopped"
             /\ startCalls' = startCalls)
            => (status' = "stopped" /\ child' = child)]_vars

\* the loop ended after a clean exit under on-failure
CleanExitEnded ==
    /\ tpc[1] = "done" /\ tcode[1] = 0 /\ tpolicy[1] = "on-failure"
    /\ ~should_stop
    /\ status = "stopped"
    /\ child = [p \in Pids |-> IF p = 1 THEN "exited" ELSE "none"]

\* C5: under policy always with no stop requested, a clean exit writes
\* "stopped" and the thread goes round the loop, launches again and writes
\* "running"; while every exit so far was clean the status is never
\* "error".
AlwaysRelaunchesCleanExit ==
    /\ [][\A t \in Threads :
            (/\ tpc[t] = "decide" /\ tpc'[t] # "decide"
             /\ ~tstop[t] /\ tcode[t] = 0 /\ tpolicy[t] = "always")
            => (tpc'[t] = "check" /\ status' = "stopped")]_vars
    /\ [][\A t \in Threads :
            (tpc[t] = "check" /\ tpc'[t] # "check" /\ ~should_stop)
            => tpc'[t] = "launch"]_vars
    /\ [][\A t \in Threads :
            (tpc[t] = "register" /\ tpc'[t] # "register")
            => status' = "running"]_vars
    /\ []((\A p \in Pids : child[p] = "exited" => ccode[p] = 0)
          => status # "error")

\* the second child of an always loop is running after a clean first exit
AlwaysRelaunched ==
    /\ tpolicy[1] = "always" /\ tpc[1] = "read" /\ tproc[1] = 2
    /\ child[1] = "exited" /\ ccode[1] = 0
    /\ status = "running"
    /\ ~should_stop

\* C6: under policy on-failure with no stop requested, a nonzero exit
\* writes "error" and the thread goes round the loop, launches again and
\* writes "running", at every such exit.
OnFailureRelaunchesCrash ==
    /\ [][\A t \in Threads :
            (/\ tpc[t] = "decide" /\ tpc'[t] # "decide"
             /\ ~tstop[t] /\ tcode[t] # 0 /\ tpolicy[t] = "on-failure")
            => (tpc'[t] = "check" /\ status' = "error")]_vars
    /\ [][\A t \in Threads :
            (/\ tpc[t] = "check" /\ tpc'[t] # "check"
             /\ ~should_stop /\ tpolicy[t] = "on-failure")
            => tpc'[t] = "launch"]_vars
    /\ [][\A t \in Threads :
            (/\ tpc[t] = "register" /\ tpc'[t] # "register"
             /\ tpolicy[t] = "on-failure")
            => (status' = "running" /\ process' = tproc[t])]_vars

\* error, running, error: the relaunched child of an on-failure loop has
\* crashed as well
SecondCrashSeen ==
    /\ tpolicy[1] = "on-failure" /\ tpc[1] = "check" /\ tproc[1] = 2
    /\ ccode[1] = 1 /\ ccode[2] = 1
    /\ status = "error"
    /\ ~should_stop

Range(f) == {f[i] : i \in 1..Len(f)}

\* C7: no line of which the tail sent on connect holds characters is also
\* enqueued to that client's queue.
NoDuplicateDelivery ==
    \A c \in Conns : LineIds(wtail[c]) \cap Range(delivered[c]) = {}

\* the last n characters of s, taken from its end
RECURSIVE TakeLast(_, _)
TakeLast(s, n) ==
    IF n <= 0 \/ s = <<>> THEN <<>>
    ELSE LET p == s[Len(s)]
             m == p[3] - p[2] + 1
         IN  IF m >= n THEN << <<p[1], p[3] - n + 1, p[3]>> >>
             ELSE TakeLast(SubSeq(s, 1, Len(s) - 1), n - m) \o <<p>>

\* C8: the output tail is never longer than the cap, and it is the last cap
\* characters of the concatenation of the lines appended since the tail was
\* last reset (all of it when shorter).
OutputTailIsBoundedSuffix ==
    /\ StrLen(output) <= OUTPUT_CAP
    /\ output = TakeLast(untruncated, OUTPUT_CAP)

\* more than the cap was appended and the oldest characters were cut
OutputTruncated ==
    /\ StrLen(untruncated) > OUTPUT_CAP
    /\ StrLen(output) = OUTPUT_CAP
    /\ Len(output) = 2

\* C9: no queue ever holds more than its capacity; a thread in the loop
\* over its snapshot can always serve any remaining sink (full or not); and
\* serving a sink appends the line when the sink has room, leaves it as it
\* is when full, and touches no other sink.
PublishNeverBlocks ==
    /\ [](\A c \in Conns : Len(queue[c]) <= maxsize)
    /\ [](\A t \in Threads, c \in Conns :
            (tpc[t] = "put" /\ c \in tsubs[t]) => ENABLED MonitorPut(t, c))
    /\ [][\A t \in Threads, c \in Conns :
            (tpc[t] = "put" /\ c \in tsubs[t] /\ c \notin tsubs'[t])
            => /\ queue'[c] = IF Len(queue[c]) < maxsize
                              THEN Append(queue[c], tline[t])
                              ELSE queue[c]
               /\ \A d \in Conns \ {c} : queue'[d] = queue[d]]_vars

\* line 2 was published to two subscribed clients: dropped for the first,
\* whose queue was full, and enqueued to the second
DroppedForFullSinkOnly ==
    /\ wpc[1] = "open" /\ wpc[2] = "open"
    /\ subscribers = {1, 2}
    /\ nlines = 2
    /\ \A t \in Threads : tpc[t] \notin {"broadcast", "put"}
    /\ delivered[1] = <<1>> /\ Len(queue[1]) = maxsize
    /\ delivered[2] = <<1, 2>>

\* C10: the lines enqueued to a client's queue are in the order in which
\* they were appended to the output tail.
DeliveredInProductionOrder ==
    \A c \in Conns : \A i, j \in 1..Len(delivered[c]) :
        i < j => delivered[c][i] < delivered[c][j]

\* C11: when Popen fails the thread does not end with the exception: it
\* writes status "error" and goes on as after a nonzero exit (round the
\* loop under on-failure and always, out of it under never).
LaunchFailureBecomesError ==
    [][\A t \in Threads :
         (tpc[t] = "launch" /\ tpc'[t] # "launch" /\ child' = child)
         => /\ status' = "error"
            /\ tpc'[t] = IF tpolicy[t] \in {"on-failure", "always"}
                         THEN "check" ELSE "done"]_vars

\* C12: while a stop request has returned and no later start has cleared
\* the flag, the status is "stopped" and no child is launched.
StoppedStaysStopped ==
    /\ []((should_stop /\ hpc = "idle") => status = "stopped")
    /\ [][(should_stop /\ hpc = "idle" /\ should_stop')
            => \A p \in Pids : child[p] = "none" => child'[p] = "none"]_vars

\* C13: the stop flag, once set, is cleared only by a start request served
\* while the status is not "running"; a thread that reads it set, at the
\* top of the loop or after the exit, writes status "stopped" and ends
\* without launching a child.
StopFlagSticky ==
    /\ [][(should_stop /\ ~should_stop')
            => (startCalls' = startCalls + 1 /\ status # "running")]_vars
    /\ [][\A t \in Threads :
            (tpc[t] = "check" /\ tpc'[t] # "check" /\ should_stop)
            => (tpc'[t] = "setstopped" /\ child' = child)]_vars
    /\ [][\A t \in Threads :
            (tpc[t] = "setstopped" /\ tpc'[t] # "setstopped")
            => (tpc'[t] = "done" /\ status' = "stopped" /\ child' = child)]_vars
    /\ [][\A t \in Threads :
            (tpc[t] = "decide" /\ tpc'[t] # "decide" /\ tstop[t])
            => (tpc'[t] = "done" /\ status' = "stopped" /\ child' = child)]_vars
    /\ [][\A t \in Threads : tpc[t] = "done" => tpc'[t] = "done"]_vars

\* an always loop that read the flag after its child's exit has ended
StopObservedAfterExit ==
    /\ tpolicy[1] = "always" /\ tpc[1] = "done" /\ tstop[1]
    /\ tcode[1] # NoCode
    /\ should_stop
    /\ status = "stopped"

\* C14: at most one monitor_script thread of the name is alive at any time.
AtMostOneLoopAlive ==
    Cardinality({t \in Threads : ~Terminated(t)}) <= 1

\* a step of a monitor_script thread (a start request moves a thread too,
\* and counts itself)
LoopStep == tpc' # tpc /\ startCalls' = startCalls

\* C15 as stated: once the record exists, every write of status,
\* start_time, returncode or the process handle is a step of the loop.
OnlyLoopWritesRuntime ==
    [][(known /\ <<status, start_time, returncode, process>>'
                   # <<status, start_time, returncode, process>>)
         => LoopStep]_vars

\* C15: start_time, returncode and the process handle are written by the
\* loop alone; the status of an existing record is written by the loop and
\* by the last block of a stop request, which writes "stopped"; a record is
\* created with status "stopped".
LoopAndStopWriteRuntime ==
    /\ [][<<start_time, returncode, process>>'
            # <<start_time, returncode, process>> => LoopStep]_vars
    /\ [][(known /\ status' # status)
            => \/ LoopStep
               \/ (hpc = "stop_final" /\ hpc' = "idle" /\ status' = "stopped")]_vars
    /\ [][(~known /\ status' # status) => (known' /\ status' = "stopped")]_vars

\* the stop request has overwritten the "running" of a loop still reading
\* its child's output
StopWroteStatus ==
    /\ tpc[1] = "read" /\ tpc[2] = "none"
    /\ process = 1 /\ start_time = 1
    /\ hpc = "idle"
    /\ status = "stopped"

\* C16: under policy "never", with the flag read unset, a nonzero exit
\* code makes the thread write status "error" and end; it launches no
\* child, an ended thread never moves, and with every thread ended the
\* status stays "error" and no child appears until a stop or a start.
NeverPolicyCrashEndsLoop ==
    /\ [][\A t \in Threads :
            (/\ tpc[t] = "decide" /\ tpc'[t] # "decide"
             /\ ~tstop[t] /\ tcode[t] # 0 /\ tpolicy[t] = "never")
            => (tpc'[t] = "done" /\ status' = "error" /\ child' = child)]_vars
    /\ [][\A t \in Threads : tpc[t] = "done" => (tpc'[t] = "done" /\ tproc'[t] = tproc[t])]_vars
    /\ [][(/\ \A t \in Threads : Terminated(t)
           /\ status = "error" /\ hpc = "idle"
           /\ startCalls' = startCalls)
          => (status' = "error" /\ child' = child)]_vars

\* a never loop has ended on its child's exit code 1, nothing relaunched
NeverPolicyCrashEnded ==
    /\ tpolicy[1] = "never" /\ tpc[1] = "done" /\ tpc[2] = "none"
    /\ ~tstop[1] /\ tcode[1] = 1
    /\ status = "error"
    /\ child = <<"exited", "none">>

\* C17: status "running" implies a start time and a process handle are
\* recorded.
RunningHasTimeAndHandle ==
    status = "running" => (start_time # 0 /\ process # 0)

\* a relaunched child is registered: status, time and handle of launch 2
SecondLaunchRegistered ==
    /\ status = "running" /\ start_time = 2 /\ process = 2
    /\ child[2] = "live"

\* C18: while one loop only has been started, status "running" implies
\* that no exit code is recorded (outside the window in which the thread
\* has stored its child's exit code at line 89 and not yet the status that
\* follows from it), and the registration of a relaunched child leaves no
\* exit code recorded.
RunningHasNoExitCode ==
    /\ []((status = "running" /\ tpc[1] # "decide" /\ tpc[2] = "none")
            => returncode = NoCode)
    /\ [][\A t \in Threads :
            (tpc[t] = "register" /\ tpc'[t] = "read" /\ tcode[t] # NoCode)
            => returncode' = NoCode]_vars

\* C19: a start request served while the status is not "running" empties
\* the output; nothing else does: every other step that changes the output
\* appends one line to it (and cuts to the cap), and the registration of a
\* launched or relaunched child leaves it as it is.
OutputResetOnlyByStart ==
    /\ [][(startCalls' = startCalls + 1 /\ ~AlreadyRunning)
            => output' = <<>>]_vars
    /\ [][(output # <<>> /\ output' = <<>>)
            => (startCalls' = startCalls + 1 /\ ~AlreadyRunning)]_vars
    /\ [][(startCalls' = startCalls /\ output' # output)
            => /\ nlines' = nlines + 1
               /\ \E len \in LineLens :
                    output' = AppendOutput(output, Line(nlines', len))]_vars
    /\ [][\A t \in Threads :
            (tpc[t] = "register" /\ tpc'[t] # "register")
            => output' = output]_vars

\* one start, the second child registered, and both lines produced since
\* the start are in the output
OutputAcrossRelaunch ==
    /\ startCalls = 1 /\ tpc[1] = "read" /\ tproc[1] = 2
    /\ process = 2 /\ status = "running"
    /\ LineIds(output) = {1, 2}

\* C20: the subscriber set is exactly the set of open connections and
\* changes only in a step that opens or closes a connection; every line
\* published is addressed to all of them, whatever starts, stops, launches
\* and exits happened since they connected.
SubscribersOnlyByWs ==
    /\ [](\A c \in Conns : c \in subscribers <=> wpc[c] = "open")
    /\ [][subscribers' # subscribers => (wpc' # wpc /\ hpc = "idle")]_vars
    /\ [][\A t \in Threads :
            (tpc[t] = "broadcast" /\ tpc'[t] # "broadcast")
            => tsubs'[t] = {c \in Conns : wpc[c] = "open"}]_vars

\* a connection still subscribed after a stop, with a line of the second
\* child delivered to it
SubscriberOutlivesLaunches ==
    /\ wpc[1] = "open" /\ 1 \in subscribers
    /\ tproc[1] = 2 /\ process = 2
    /\ should_stop /\ hpc = "idle"
    /\ delivered[1] # <<>>

====
